---- MODULE Spec2Model ----
(***************************************************************************)
(* corpus-cleaner-cli: the parallel orchestrator (processor.rs), the       *)
(* per-file streaming loop (process_file) and the record pipeline with its *)
(* shared deduplicator (filters/mod.rs).                                   *)
(*                                                                         *)
(* One run of the program over a fixed corpus of input files.  Every file  *)
(* is one rayon task; tasks interleave at the points where they touch the  *)
(* shared DashMap (contains_key, insert) and at their I/O calls, each of   *)
(* which may fail.  The pool size only restricts which interleavings       *)
(* occur, so the model lets every queued file start at any time.           *)
(***************************************************************************)
EXTENDS Naturals, Sequences, FiniteSets

\* ------------------------------------------------------------- bounds ----
\* number of input files found by discover_files, at most
NumFiles == 2
\* number of lines in the whole corpus (all input files together), at most
MaxLines == 2

\* ------------------------------------------------------ lines, records ----
\* the signatures (Identities) that occur in the corpus
Sigs == {"a", "b"}

\* A line of an input file, by what the code can tell apart:
\*   blank    empty or whitespace only
\*   bad      valid UTF-8 that serde_json does not parse
\*   nonutf8  bytes that are no valid UTF-8
\*   json     a JSON value; sig is its "signature" member (a string of Sigs,
\*            "absent", or "nonstr" for a member that is no string), err its
\*            /meta/err ("absent", "null", or "set" for any non-null value)
Ln(k, s, e) == [kind |-> k, sig |-> s, err |-> e]

Lines ==
    { Ln("blank", "-", "-"), Ln("bad", "-", "-"), Ln("nonutf8", "-", "-"),
      Ln("json", "a", "null"), Ln("json", "a", "set"),
      Ln("json", "b", "absent"),
      Ln("json", "absent", "null"), Ln("json", "nonstr", "absent") }

\* what tx.get("signature") can be
AllSigs == Sigs \cup {"absent", "nonstr"}

\* serde_json::Value, as far as the pipeline inspects it
Val(s, e) == [sig |-> s, err |-> e]

VARIABLES
    files,   \* the discovered input files: a sequence of files, each a sequence of lines
    run,     \* position of main / run_processing
    pc,      \* per file: position of its process_file task
    idx,     \* per file: number of lines taken from reader.lines()
    out,     \* per file: the records written to its output, in order
    count,   \* per file: process_file's local count
    seen,    \* Deduplicator.seen: the digests in the shared DashMap
    claims,  \* per signature: how many is_unique calls returned true (t), false (f)
    pos,     \* ProgressBar position, as advanced by the closure's pb.inc(1)
    admits,  \* per file: the numbers of the lines for which pipeline.process returned true
    dest,    \* per file: the output path its task has created, or NoPath
    probe    \* a JSON document put through StatusFilter::keep on its own (FilterSpec)

vars == <<files, run, pc, idx, out, count, seen, claims, pos, admits, dest, probe>>

F == DOMAIN files

\* ------------------------------------------------------ record codec ----
\* line.trim().is_empty()
IsBlank(line) == line.kind = "blank"

\* reader.lines() yields Ok(String) only for valid UTF-8; otherwise io::Error
ReadsAsString(line) == line.kind # "nonutf8"

\* serde_json::from_str::<Value>(&line) is Ok
Decodable(line) == line.kind = "json"

\* the Value that from_str returns for a decodable line
Decode(line) == Val(line.sig, line.err)

\* ------------------------------------------------------------ filters ----
\* a keep that drops a record without the error member
StatusFilterKeepStrict(tx) ==
    CASE tx.err = "null" -> TRUE
      [] OTHER           -> FALSE

\* StatusFilter::keep: match tx.pointer("/meta/err")
StatusFilterKeep(tx) ==
    CASE tx.err = "null"   -> TRUE
      [] tx.err = "absent" -> TRUE
      [] OTHER             -> FALSE

\* a Pipeline built without add_filter(StatusFilter)
EmptyChainKeep(tx) == TRUE

\* Pipeline::process, step 1: the chain process_file builds is [StatusFilter]
FilterChainKeep(tx) == StatusFilterKeep(tx)

\* A JSON document as StatusFilter sees it: what its "meta" member is, and,
\* when that is an object, what the "err" member of meta is.
MetaKinds == {"absent", "null", "scalar", "array", "object"}
ErrKinds == {"absent", "null", "false", "zero", "string", "array", "object"}

Docs ==
    {[sig |-> s, meta |-> m, err |-> "-"] : s \in AllSigs, m \in MetaKinds \ {"object"}}
    \cup {[sig |-> s, meta |-> "object", err |-> e] : s \in AllSigs, e \in ErrKinds}

\* tx.pointer("/meta/err"): the member err of an object meta; None ("absent")
\* when meta is missing or is no object, or has no such member
Pointer(doc) == IF doc.meta = "object" THEN doc.err ELSE "absent"

\* no document under test (every run of the program)
NoProbe == [doc |-> [sig |-> "-", meta |-> "-", err |-> "-"],
            stage |-> "off", ptr |-> "-", keep |-> FALSE]

\* ------------------------------------------------------- deduplicator ----
\* an is_unique that goes on to hash whatever tx.get("signature") gave
HasSignatureAny(tx) == TRUE

\* is_unique: tx.get("signature") matches Some(Value::String(s))
HasSignature(tx) == tx.sig \in Sigs

\* Sha256 of the signature's bytes (no collisions among the model's signatures)
Sha256(s) == <<"sha256", s>>

\* a contains_key test that always takes the early return
ContainsKeyAlways(m, h) == TRUE

\* a contains_key test that never takes the early return
ContainsKeyNever(m, h) == FALSE

\* self.seen.contains_key(&hash)
ContainsKey(m, h) == h \in m

\* an insert into a map that forgets what it held
MapInsertOnly(m, h) == {h}

\* self.seen.insert(hash, ())
MapInsert(m, h) == m \cup {h}

\* --------------------------------------------------------- process_file ---
\* a writer that puts the record in front of what it has written
WriteRecordFront(o, tx) == <<tx>> \o o

\* serde_json::to_writer(&mut writer, &tx); writer.write_all(b"\n")
WriteRecord(o, tx) == Append(o, tx)

\* a count that is never advanced
IncrNone(c) == c

\* count += 1
Incr(c) == c + 1

\* the path of the f-th entry that discover_files pushed: the entries of one
\* directory (or the one input file), each with a name of its own
InputPath(f) == <<"input", f>>

\* input_path.file_name()
FileName(p) == p[Len(p)]

\* an output path that leaves the file name out
OutputPathFixed(p) == <<"output", 0>>

\* output_dir.join(file_name)
OutputPath(p) == <<"output", FileName(p)>>

\* no output file created (yet)
NoPath == <<>>

\* Where the loop body goes with a line it has read: back to the loop head
\* ("read") when the line is blank, does not parse, is dropped by a filter
\* or has no signature; into is_unique's contains_key ("check") otherwise.
AfterLine(line) ==
    IF IsBlank(line) THEN "read"
    ELSE IF ~Decodable(line) THEN "read"
    ELSE IF ~FilterChainKeep(Decode(line)) THEN "read"
    ELSE IF ~HasSignature(Decode(line)) THEN "read"
    ELSE "check"

\* the line makes pipeline.process call is_unique, which returns at its first
\* match arm (no string signature)
ClaimsNoSignature(line) ==
    /\ ~IsBlank(line)
    /\ Decodable(line)
    /\ FilterChainKeep(Decode(line))
    /\ ~HasSignature(Decode(line))

\* a closure that lets the file's error end the run
ErrArmAbort(r) == "aborted"

\* run_processing's closure, Err(e) arm: pb.println, nothing else
ErrArm(r) == r

\* the record a task holds while it is inside pipeline.process / the write
Cur(f) == Decode(files[f][idx[f]])

\* ------------------------------------------------------------- corpora ----
SeqsUpTo(S, n) == UNION {[1..k -> S] : k \in 0..n}

RECURSIVE Corp(_, _)
\* the sequences of n files that hold at most budget lines together
Corp(n, budget) ==
    IF n = 0 THEN {<<>>}
    ELSE UNION {{Append(c, s) : c \in Corp(n - 1, budget - Len(s))} :
                s \in SeqsUpTo(Lines, budget)}

Corpora == UNION {Corp(n, MaxLines) : n \in 0..NumFiles}

\* the corpora of the runs checked for termination: lines that take the loop
\* body along each of its paths (skipped, dropped, claimed, read error)
FairLines ==
    { Ln("nonutf8", "-", "-"), Ln("json", "a", "null"), Ln("json", "a", "set") }

FairCorpora == {c \in Corpora : \A f \in DOMAIN c : \A i \in DOMAIN c[f] : c[f][i] \in FairLines}

\* ----------------------------------------------------------------- Init ---
Init ==
    /\ files \in Corpora
    /\ run = "main"
    /\ pc = [f \in F |-> "queued"]
    /\ idx = [f \in F |-> 0]
    /\ out = [f \in F |-> <<>>]
    /\ count = [f \in F |-> 0]
    /\ seen = {}
    /\ claims = [s \in AllSigs |-> [t |-> 0, f |-> 0]]
    /\ pos = 0
    /\ admits = [f \in F |-> <<>>]
    /\ dest = [f \in F |-> NoPath]
    /\ probe = NoProbe

\* -------------------------------------------------------------- actions ---
\* main: fs::create_dir_all(&args.output) when the output root is missing
PrepareOutput ==
    /\ run = "main"
    /\ \/ run' = "pool"
       \/ run' = "aborted"
    /\ UNCHANGED <<probe, admits, dest, files, pc, idx, out, count, seen, claims, pos>>

\* run_processing: ThreadPoolBuilder::build_global
BuildPool ==
    /\ run = "pool"
    /\ \/ run' = "discover"
       \/ run' = "aborted"
    /\ UNCHANGED <<probe, admits, dest, files, pc, idx, out, count, seen, claims, pos>>

\* run_processing: discover_files, the empty check, progress bar and dedup set up
Discover ==
    /\ run = "discover"
    /\ \/ run' = (IF Len(files) = 0 THEN "done" ELSE "running")
       \/ run' = "aborted"
    /\ UNCHANGED <<probe, admits, dest, files, pc, idx, out, count, seen, claims, pos>>

\* a pool that hands a file that has completed to process_file again
OpenAgain(f) ==
    /\ run = "running"
    /\ pc[f] \in {"queued", "ok"}
    /\ pc' = [pc EXCEPT ![f] = "read"]
    /\ dest' = [dest EXCEPT ![f] = OutputPath(InputPath(f))]
    /\ UNCHANGED <<probe, admits, files, run, idx, out, count, seen, claims, pos>>

\* process_file: File::open(input_path), File::create(output_path)
Open(f) ==
    /\ run = "running"
    /\ pc[f] = "queued"
    /\ \/ /\ pc' = [pc EXCEPT ![f] = "read"]
          /\ dest' = [dest EXCEPT ![f] = OutputPath(InputPath(f))]
          /\ run' = run
       \/ /\ pc' = [pc EXCEPT ![f] = "err"]
          /\ dest' = dest
          /\ run' = ErrArm(run)
    /\ UNCHANGED <<probe, admits, files, idx, out, count, seen, claims, pos>>

\* the for loop's head and body up to is_unique's contains_key
\* (line? fails on a read error, and on a line that is no valid UTF-8)
ReadLine(f) ==
    /\ run = "running"
    /\ pc[f] = "read"
    /\ \/ /\ idx[f] = Len(files[f])
          /\ pc' = [pc EXCEPT ![f] = "flush"]
          /\ UNCHANGED <<idx, run, claims>>
       \/ /\ idx[f] < Len(files[f])
          /\ ReadsAsString(files[f][idx[f] + 1])
          /\ idx' = [idx EXCEPT ![f] = @ + 1]
          /\ pc' = [pc EXCEPT ![f] = AfterLine(files[f][idx[f] + 1])]
          /\ claims' = IF ClaimsNoSignature(files[f][idx[f] + 1])
                        THEN [claims EXCEPT ![files[f][idx[f] + 1].sig].f = @ + 1]
                        ELSE claims
          /\ run' = run
       \/ /\ idx[f] < Len(files[f])
          /\ ~ReadsAsString(files[f][idx[f] + 1])
          /\ idx' = [idx EXCEPT ![f] = @ + 1]
          /\ pc' = [pc EXCEPT ![f] = "err"]
          /\ run' = ErrArm(run)
          /\ claims' = claims
       \/ /\ pc' = [pc EXCEPT ![f] = "err"]
          /\ run' = ErrArm(run)
          /\ UNCHANGED <<idx, claims>>
    /\ UNCHANGED <<probe, admits, dest, files, out, count, seen, pos>>

\* is_unique: if self.seen.contains_key(&hash) { return false; }
Check(f) ==
    /\ run = "running"
    /\ pc[f] = "check"
    /\ IF ContainsKey(seen, Sha256(Cur(f).sig))
       THEN /\ pc' = [pc EXCEPT ![f] = "read"]
            /\ claims' = [claims EXCEPT ![Cur(f).sig].f = @ + 1]
       ELSE /\ pc' = [pc EXCEPT ![f] = "insert"]
            /\ claims' = claims
    /\ UNCHANGED <<probe, admits, dest, files, run, idx, out, count, seen, pos>>

\* is_unique: self.seen.insert(hash, ()); true
Insert(f) ==
    /\ run = "running"
    /\ pc[f] = "insert"
    /\ seen' = MapInsert(seen, Sha256(Cur(f).sig))
    /\ claims' = [claims EXCEPT ![Cur(f).sig].t = @ + 1]
    /\ admits' = [admits EXCEPT ![f] = Append(@, idx[f])]
    /\ pc' = [pc EXCEPT ![f] = "write"]
    /\ UNCHANGED <<probe, dest, files, run, idx, out, count, pos>>

\* process_file: to_writer, write_all, count += 1
Write(f) ==
    /\ run = "running"
    /\ pc[f] = "write"
    /\ \/ /\ out' = [out EXCEPT ![f] = WriteRecord(@, Cur(f))]
          /\ count' = [count EXCEPT ![f] = Incr(@)]
          /\ pc' = [pc EXCEPT ![f] = "read"]
          /\ run' = run
       \/ /\ pc' = [pc EXCEPT ![f] = "err"]
          /\ run' = ErrArm(run)
          /\ UNCHANGED <<out, count>>
    /\ UNCHANGED <<probe, admits, dest, files, idx, seen, claims, pos>>

\* process_file: writer.flush(); Ok(count), and the closure's match on it
Flush(f) ==
    /\ run = "running"
    /\ pc[f] = "flush"
    /\ \/ /\ pc' = [pc EXCEPT ![f] = "ok"]
          /\ pos' = pos + 1
          /\ run' = run
       \/ /\ pc' = [pc EXCEPT ![f] = "err"]
          /\ pos' = pos
          /\ run' = ErrArm(run)
    /\ UNCHANGED <<probe, admits, dest, files, idx, out, count, seen, claims>>

\* run_processing: for_each has returned; pb.finish_with_message, Ok(())
Finish ==
    /\ run = "running"
    /\ \A f \in F : pc[f] \in {"ok", "err"}
    /\ run' = "done"
    /\ UNCHANGED <<probe, admits, dest, files, pc, idx, out, count, seen, claims, pos>>

Next ==
    \/ PrepareOutput
    \/ BuildPool
    \/ Discover
    \/ \E f \in F : Open(f)
    \/ \E f \in F : ReadLine(f)
    \/ \E f \in F : Check(f)
    \/ \E f \in F : Insert(f)
    \/ \E f \in F : Write(f)
    \/ \E f \in F : Flush(f)
    \/ Finish

Spec == Init /\ [][Next]_vars

\* the steps of the task of file f
Task(f) ==
    /\ f \in F
    /\ Open(f) \/ ReadLine(f) \/ Check(f) \/ Insert(f) \/ Write(f) \/ Flush(f)

\* a run over one of the corpora checked for termination
FairInit == Init /\ files \in FairCorpora

\* main and run_processing run on; the pool runs every task it has been given
FairSpec ==
    /\ FairInit
    /\ [][Next]_vars
    /\ WF_vars(PrepareOutput \/ BuildPool \/ Discover \/ Finish)
    /\ \A f \in 1..NumFiles : WF_vars(Task(f))

\* ------------------------------------------- StatusFilter::keep on its own ---
FilterInit ==
    /\ probe \in {[doc |-> d, stage |-> "start", ptr |-> "-", keep |-> FALSE] : d \in Docs}
    /\ files = <<>>
    /\ run = "filter"
    /\ pc = <<>>
    /\ idx = <<>>
    /\ out = <<>>
    /\ count = <<>>
    /\ seen = {}
    /\ claims = [s \in AllSigs |-> [t |-> 0, f |-> 0]]
    /\ pos = 0
    /\ admits = <<>>
    /\ dest = <<>>

\* keep: tx.pointer("/meta/err")
Lookup ==
    /\ probe.stage = "start"
    /\ probe' = [probe EXCEPT !.stage = "found", !.ptr = Pointer(probe.doc)]
    /\ UNCHANGED <<files, run, pc, idx, out, count, seen, claims, pos, admits, dest>>

\* keep: the match on what the pointer found
Match ==
    /\ probe.stage = "found"
    /\ probe' = [probe EXCEPT !.stage = "matched",
                               !.keep = StatusFilterKeep(Val(probe.doc.sig, probe.ptr))]
    /\ UNCHANGED <<files, run, pc, idx, out, count, seen, claims, pos, admits, dest>>

FilterNext == Lookup \/ Match

FilterSpec == FilterInit /\ [][FilterNext]_vars

\* ------------------------------------------------- vocabulary of claims ---
\* the signatures of the records in the output of file f
OutSigs(f) == {out[f][i].sig : i \in DOMAIN out[f]}

\* how many records with signature s the output of file f holds
CountIn(f, s) == Cardinality({i \in DOMAIN out[f] : out[f][i].sig = s})

RECURSIVE AdmittedUpTo(_, _)
\* how many records with signature s the outputs of files 1..n hold
AdmittedUpTo(n, s) == IF n = 0 THEN 0 ELSE AdmittedUpTo(n - 1, s) + CountIn(n, s)

\* how many records with signature s all output files hold
Admitted(s) == AdmittedUpTo(Len(files), s)

\* a line that decodes to a record which passes the filters and has Identity s
Eligible(line, s) ==
    /\ line.kind = "json"
    /\ line.err \in {"null", "absent"}
    /\ line.sig = s

\* file f contains a record that can be admitted under Identity s
HasEligible(f, s) == \E i \in DOMAIN files[f] : Eligible(files[f][i], s)

\* the run is over and no file failed
AllOk == run = "done" /\ \A f \in F : pc[f] = "ok"

\* the decoded records of the decodable lines among lns, in order
RECURSIVE Records(_)
Records(lns) ==
    IF lns = <<>> THEN <<>>
    ELSE IF Head(lns).kind = "json"
         THEN <<Val(Head(lns).sig, Head(lns).err)>> \o Records(Tail(lns))
         ELSE Records(Tail(lns))

\* a is b with some elements left out
RECURSIVE IsSubseq(_, _)
IsSubseq(a, b) ==
    IF a = <<>> THEN TRUE
    ELSE IF b = <<>> THEN FALSE
    ELSE IF Head(a) = Head(b) THEN IsSubseq(Tail(a), Tail(b))
    ELSE IsSubseq(a, Tail(b))

\* the lines file f's task has taken so far
Taken(f) == SubSeq(files[f], 1, idx[f])

\* the step takes line i of file f from the reader
Takes(f) == idx'[f] = idx[f] + 1

TypeOK ==
    /\ run \in {"main", "pool", "discover", "running", "done", "aborted"}
    /\ \A f \in F : pc[f] \in {"queued", "read", "check", "insert", "write", "flush", "ok", "err"}

\* ----------------------------------------------------------------- C1 -----
\* C1 (global uniqueness): for every Identity s, all output files together
\* hold at most one record with signature s.
GlobalUniqueness == \A s \in Sigs : Admitted(s) <= 1

\* ----------------------------------------------------------------- C2 -----
\* C2 (atomic claim): among the is_unique calls made for one Identity,
\* exactly one returns true and all the others return false.
AtomicClaim ==
    \A s \in Sigs : claims[s].t + claims[s].f > 0 => claims[s].t = 1

\* ----------------------------------------------------------------- C3 -----
\* C3 (cross-file dedup without loss): when the run has finished (no file
\* having failed) and two or more input files hold an admissible record with
\* signature s, exactly one output file holds a record with signature s.
CrossFileDedup ==
    AllOk =>
        \A s \in Sigs :
            Cardinality({f \in F : HasEligible(f, s)}) >= 2
                => Cardinality({f \in F : s \in OutSigs(f)}) = 1

\* ----------------------------------------------------------------- C4 -----
\* C4 (seen-set invariant): a digest is in the seen-set if and only if a
\* record with that Identity has been written to an output (or the task that
\* claimed it is about to write it).
SeenIffAdmitted ==
    \A s \in Sigs :
        Sha256(s) \in seen
            <=> \/ Admitted(s) >= 1
                \/ \E f \in F : pc[f] = "write" /\ Cur(f).sig = s

\* ----------------------------------------------------------------- C5 -----
\* C5 (order preservation): at every point, the records written to a file's
\* output are a subsequence, in the same order, of the decodable records among
\* the lines its task has taken from that file.
OrderPreserved == \A f \in F : IsSubseq(out[f], Records(Taken(f)))

\* two different records of one file have been written to its output
OrderPreservedWitness ==
    \E f \in F : Len(out[f]) = 2 /\ out[f][1] # out[f][2]

\* ----------------------------------------------------------------- C6 -----
\* C6 (malformed-line tolerance): a step that takes a malformed line (one
\* that is not blank and does not decode) goes back to the loop head with the
\* output and the count unchanged, and a file's output never holds more
\* records than the file has decodable lines.
MalformedTolerance ==
    [][\A f \in F :
        /\ Len(out'[f]) <= Len(Records(files[f]))
        /\ (Takes(f) /\ files[f][idx'[f]].kind \in {"bad", "nonutf8"})
              => /\ pc'[f] = "read"
                 /\ out'[f] = out[f]
                 /\ count'[f] = count[f]]_vars

\* ----------------------------------------------------------------- C7 -----
\* C7 (file failure isolation): the step at which a file fails changes nothing
\* but that file's own position: the run goes on, the seen-set and every
\* output stay as they are, so the other files continue from the state they
\* would be in had the file not failed; a failed file does nothing more; and
\* the run ends only when every file has completed or failed.
IsolatedFailure ==
    \A f \in F :
        /\ (pc[f] # "err" /\ pc'[f] = "err")
              => /\ run' = run
                 /\ seen' = seen
                 /\ out' = out
                 /\ count' = count
                 /\ \A g \in F \ {f} : pc'[g] = pc[g] /\ idx'[g] = idx[g]
        /\ pc[f] = "err"
              => pc'[f] = "err" /\ idx'[f] = idx[f] /\ out'[f] = out[f]

RunSurvives ==
    /\ (\E f \in F : pc[f] = "err") => run \in {"running", "done"}
    /\ run = "done" => \A g \in F : pc[g] \in {"ok", "err"}

MissingIdentity ==
    /\ \A f \in F : \A i \in DOMAIN out[f] : out[f][i].sig \in Sigs
    /\ \A x \in AllSigs \ Sigs : claims[x].t = 0 /\ Sha256(x) \notin seen
    /\ seen \subseteq {Sha256(s) : s \in Sigs}

\* is_unique has returned false for a record without the member and for one
\* whose member is no string, both of which the filters kept
MissingIdentityWitness ==
    claims["absent"].f >= 1 /\ claims["nonstr"].f >= 1

\* ----------------------------------------------------------------- C9 -----
\* C9 (filters before claim): no task is inside is_unique, or writing, with a
\* record a stateless filter drops, and the seen-set holds only digests of
\* records taken from the input that the filters keep.
FiltersBeforeClaim ==
    /\ \A f \in F :
          pc[f] \in {"check", "insert", "write"} => Cur(f).err \in {"null", "absent"}
    /\ \A s \in AllSigs :
          (Sha256(s) \in seen \/ claims[s].t + claims[s].f > 0)
              => \E f \in F : \E i \in 1..idx[f] : Eligible(files[f][i], s)

\* a file whose first record was dropped by the status filter has admitted
\* its second record, which has the same Identity
FiltersBeforeClaimWitness ==
    \E f \in F :
        /\ idx[f] = 2
        /\ files[f][1].kind = "json" /\ files[f][1].err = "set"
        /\ files[f][2].sig = files[f][1].sig
        /\ Len(out[f]) = 1 /\ out[f][1].sig = files[f][1].sig

ExactlyOnceStep ==
    /\ \A f \in F :
          /\ pc[f] # "queued" => pc'[f] # "queued"
          /\ pc[f] \in {"ok", "err"} => pc'[f] = pc[f]
    /\ \A f, g \in F :
          ((pc'[f] # pc[f] \/ idx'[f] # idx[f] \/ out'[f] # out[f])
              /\ (pc'[g] # pc[g] \/ idx'[g] # idx[g] \/ out'[g] # out[g])) => f = g

ExactlyOnce ==
    /\ [][ExactlyOnceStep]_vars
    /\ [](run = "done" => \A f \in F : pc[f] \in {"ok", "err"})
    /\ (run = "running") ~> (run = "done")

\* a run of two files is over, one file with a count, the other with a failure
ExactlyOnceWitness ==
    /\ run = "done"
    /\ \E f, g \in F : pc[f] = "ok" /\ pc[g] = "err"

\* ---------------------------------------------------------------- C12 -----
\* C12 (run-level error handling): once run_processing works on its files, no
\* malformed line and no failure of a file aborts the run (it can only go on
\* or return Ok); a run is aborted only before any file has been handed to
\* process_file.
RunLevelErrors ==
    /\ [][run = "running" => run' \in {"running", "done"}]_vars
    /\ [](run = "aborted" =>
            /\ seen = {}
            /\ \A f \in F : pc[f] = "queued" /\ out[f] = <<>> /\ dest[f] = NoPath)
    /\ [](run = "done" => \A f \in F : pc[f] \in {"ok", "err"})

\* run_processing has returned Ok after one file failed and another file,
\* which holds a malformed line, completed
RunLevelErrorsWitness ==
    /\ run = "done"
    /\ \E f, g \in F :
          /\ pc[f] = "err"
          /\ pc[g] = "ok"
          /\ \E i \in DOMAIN files[g] : files[g][i].kind = "bad"

\* ---------------------------------------------------------------- C13 -----
\* C13 (validity filter): keep returns true exactly when the document has no
\* /meta/err (meta missing, meta no object, or no err member in it) or has a
\* null one, and false when meta.err is there with any non-null value.
StatusFilterVerdict ==
    probe.stage = "matched" =>
        (probe.keep <=> ~(/\ probe.doc.meta = "object"
                          /\ probe.doc.err \in {"false", "zero", "string", "array", "object"}))

\* keep has returned true for a document without a meta member
StatusFilterVerdictWitness ==
    probe.stage = "matched" /\ probe.doc.meta = "absent" /\ probe.keep

\* ---------------------------------------------------------------- C14 -----
\* C14 (seen-set monotonicity): no step removes a digest from the seen-set,
\* and a step that adds one is the insert of is_unique, called on a record
\* with a string signature, adding that signature's digest and nothing else.
SeenMonotone ==
    [][/\ seen \subseteq seen'
       /\ seen' # seen =>
            \E f \in F :
                /\ pc[f] = "insert" /\ pc'[f] = "write"
                /\ files[f][idx[f]].sig \in Sigs
                /\ seen' = seen \cup {Sha256(files[f][idx[f]].sig)}]_vars

\* the seen-set has grown twice
SeenMonotoneWitness == Cardinality(seen) = 2

\* ---------------------------------------------------------------- C15 -----
\* C15 (per-file count): when process_file has returned Ok, its count is the
\* number of records in the file's output and the number of lines for which
\* pipeline.process returned true, and each of those lines decodes (none is
\* blank or malformed).
CountMatches ==
    \A f \in F :
        pc[f] = "ok" =>
            /\ count[f] = Len(out[f])
            /\ count[f] = Len(admits[f])
            /\ \A k \in DOMAIN admits[f] : files[f][admits[f][k]].kind = "json"

\* a file with a blank or malformed line and an admitted record has returned
\* the count 1
CountMatchesWitness ==
    \E f \in F :
        /\ pc[f] = "ok"
        /\ count[f] = 1
        /\ \E i \in DOMAIN files[f] : files[f][i].kind \in {"blank", "bad"}

\* ---------------------------------------------------------------- C16 -----
\* C16 (progress per completed file): the step with which a file completes,
\* with a count or with a failure, advances the progress position by one, and
\* when for_each has returned the position is the number of input files.
ProgressPerFile ==
    /\ [][\A f \in F :
            (pc[f] \notin {"ok", "err"} /\ pc'[f] \in {"ok", "err"}) => pos' = pos + 1]_vars
    /\ []((run = "running" /\ \A f \in F : pc[f] \in {"ok", "err"}) => pos = Len(files))

\* ---------------------------------------------------------------- C17 -----
\* C17 (private output destinations): no two tasks have created the same
\* output path; the path a task creates is the output root joined with its
\* input's file name, it creates it once, and it writes only after that.
PrivateOutputsStep ==
    \A f \in F :
        /\ dest[f] # NoPath => dest'[f] = dest[f]
        /\ out'[f] # out[f] => dest[f] # NoPath
        /\ dest'[f] # dest[f] => pc[f] = "queued"

PrivateOutputs ==
    /\ [][PrivateOutputsStep]_vars
    /\ [](\A f \in F :
            dest[f] # NoPath =>
                /\ dest[f] = <<"output", InputPath(f)[2]>>
                /\ \A g \in F \ {f} : dest[g] # dest[f])

\* two tasks are about to write to their outputs at the same time
PrivateOutputsWitness ==
    \E f, g \in F : f # g /\ pc[f] = "write" /\ pc[g] = "write"

\* ---------------------------------------------------------------- C18 -----
\* C18 (first occurrence wins within a file): no output holds two records
\* with one Identity, and a line for which pipeline.process returned true (the
\* lines whose records the output holds) has no earlier line in its file that
\* decodes, passes the filters and has the same Identity.
FirstOccurrence ==
    \A f \in F :
        /\ \A s \in Sigs : CountIn(f, s) <= 1
        /\ Len(out[f]) <= Len(admits[f])
        /\ \A k \in DOMAIN admits[f] :
              /\ k <= Len(out[f]) =>
                    out[f][k] = Val(files[f][admits[f][k]].sig, files[f][admits[f][k]].err)
              /\ \A j \in 1..(admits[f][k] - 1) :
                    ~Eligible(files[f][j], files[f][admits[f][k]].sig)

\* a file with two admissible records of one Identity has been read to its
\* end and has admitted the first of them
FirstOccurrenceWitness ==
    \E f \in F : \E s \in Sigs :
        /\ idx[f] = 2 /\ pc[f] = "ok"
        /\ Eligible(files[f][1], s) /\ Eligible(files[f][2], s)
        /\ admits[f] = <<1>> /\ Len(out[f]) = 1

====
